---- MODULE Spec2Model ----
(***************************************************************************)
(* Model of polaris/health/state/pool.py: PoolMember, Pool, the derived    *)
(* Pool.status property and the distribution table builder                 *)
(* Pool.to_dist_dict.                                                      *)
(*                                                                         *)
(* Member statuses: "unknown" is Python None, "up" is True, "down" is      *)
(* False.  The members dict iterates in the order of MemberIps.            *)
(* random.random() is drawn from the grid {0/RandGrid, ...,                *)
(* (RandGrid-1)/RandGrid}, a subset of [0, 1).                             *)
(***************************************************************************)
EXTENDS Integers, Sequences, FiniteSets

\* ---------------------------------------------------------------- bounds
MaxWeight == 2
RandGrid == 2

\* ------------------------------------------------------ program constants
MAX_POOL_MEMBER_WEIGHT == 99
MAX_MAX_ADDRS_RETURNED == 32

available_lb_methods == {"wrr", "twrr"}
Fallbacks == {"any", "refuse"}
Statuses == {"unknown", "up", "down"}

\* region=None, the PoolMember default, left unset by the loader under wrr
NoRegion == "None"
\* regions the topology lookup may return: any str of at most 256 chars
Regions == {"_default", "r1", "r2"}

\* keys of Pool.members, in dict iteration order
MemberIps == <<"192.168.1.1", "192.168.1.2">>
Ips == {MemberIps[k] : k \in 1..Len(MemberIps)}
Weights == {w \in 0..MaxWeight : w <= MAX_POOL_MEMBER_WEIGHT}

VARIABLES
    members,             \* Pool.members: ip -> PoolMember
    lb_method,           \* Pool.lb_method
    fallback,            \* Pool.fallback
    max_addrs_returned,  \* Pool.max_addrs_returned
    last_status,         \* Pool.last_status
    obj,                 \* <<snapshot>> returned by the to_dist_dict call
                         \* that produced this state, <<>> otherwise
    statusRead,          \* <<bool>> returned by the Pool.status read that
                         \* produced this state, <<>> otherwise
    kept,                \* <<summary>> of the snapshot the caller took last,
                         \* <<>> once the monitor has written since
    pc,                  \* position of a stepwise to_dist_dict call
    frame                \* its locals: obj['lb_method'], dist_tables,
                         \* member_ip, i

pool == <<members, lb_method, fallback, max_addrs_returned, last_status>>
vars == <<members, lb_method, fallback, max_addrs_returned, last_status,
          obj, statusRead, kept, pc, frame>>

\* ------------------------------------------------------------ PoolMember
PoolMember(ip, weight, region) ==
    [ip |-> ip, weight |-> weight, region |-> region,
     status |-> "unknown",
     last_probe_issued_time |-> "None",
     retries_left |-> "None"]

\* variant: None taken for truthy (a test `status is not False`)
TruthyUnlessDown(s) == s # "down"

\* Python truth value of a member status: only True is truthy
Truthy(s) == s = "up"

\* ------------------------------------------------------------ Pool.status
RECURSIVE StatusScan(_, _)
StatusScan(ms, k) ==
    IF k > Len(MemberIps) THEN FALSE
    ELSE IF Truthy(ms[MemberIps[k]].status) THEN TRUE
    ELSE StatusScan(ms, k + 1)

Status(ms) == StatusScan(ms, 1)

\* ------------------------------------------------- Pool.to_dist_dict
\* a freshly created distribution table
NewTable == [rotation |-> <<>>, num_unique_addrs |-> 0]

\* dist_tables after the unconditional creation of "_default"
InitTables == [name \in {"_default"} |-> NewTable]

\* variant: the configured method is copied through, never forced
ConfiguredLbMethod(st, fb, lbm) == lbm

\* obj['lb_method']: st is the value self.status returned
EffectiveLbMethod(st, fb, lbm) ==
    IF st = FALSE /\ fb = "any" THEN "wrr" ELSE lbm

\* the test guarding a member's contribution; st is self.status
Eligible(member, st, fb) ==
    Truthy(member.status) \/ (~st /\ fb = "any")

\* dist_tables['_default']['num_unique_addrs'] += 1
CountMember(dt) ==
    [dt EXCEPT !["_default"].num_unique_addrs = @ + 1]

\* dt with the table of `region` created if it does not exist
WithRegion(dt, region) ==
    IF region \in DOMAIN dt THEN dt
    ELSE [name \in DOMAIN dt \cup {region} |->
            IF name \in DOMAIN dt THEN dt[name] ELSE NewTable]

\* variant: regional tables built whatever self.status returns
AppendIpAnyStatus(dt, member, st, lbm) ==
    LET d1 == [dt EXCEPT !["_default"].rotation = Append(@, member.ip)]
    IN  IF lbm = "twrr"
        THEN LET d2 == WithRegion(d1, member.region)
                 d3 == [d2 EXCEPT ![member.region].rotation =
                                        Append(@, member.ip)]
             IN  [d3 EXCEPT ![member.region].num_unique_addrs = @ + 1]
        ELSE d1

\* one pass of the body of `for i in range(member.weight)`; st is the value
\* self.status returned in that pass, lbm is self.lb_method
AppendIp(dt, member, st, lbm) ==
    LET d1 == [dt EXCEPT !["_default"].rotation = Append(@, member.ip)]
    IN  IF lbm = "twrr" /\ st
        THEN LET d2 == WithRegion(d1, member.region)
                 d3 == [d2 EXCEPT ![member.region].rotation =
                                        Append(@, member.ip)]
             IN  [d3 EXCEPT ![member.region].num_unique_addrs = @ + 1]
        ELSE d1

\* passes i, i+1, ..., member.weight-1 of the weight loop, run without
\* interruption over the members ms
RECURSIVE AppendWeight(_, _, _, _, _)
AppendWeight(dt, member, i, ms, lbm) ==
    IF i >= member.weight THEN dt
    ELSE AppendWeight(AppendIp(dt, member, Status(ms), lbm),
                      member, i + 1, ms, lbm)

\* the body of `for member_ip in self.members` for one member
AddMember(dt, member, ms, fb, lbm) ==
    IF Eligible(member, Status(ms), fb)
    THEN IF member.weight = 0 THEN dt
         ELSE AppendWeight(CountMember(dt), member, 0, ms, lbm)
    ELSE dt

\* the member loop from the k-th key of self.members on
RECURSIVE BuildTables(_, _, _, _, _)
BuildTables(dt, k, ms, fb, lbm) ==
    IF k > Len(MemberIps) THEN dt
    ELSE BuildTables(AddMember(dt, ms[MemberIps[k]], ms, fb, lbm),
                     k + 1, ms, fb, lbm)

\* s without its k-th element
Without(s, k) == SubSeq(s, 1, k - 1) \o SubSeq(s, k + 1, Len(s))

\* the results random.shuffle can leave in place of s: every arrangement
\* of its entries (equal entries are taken once as next element)
RECURSIVE Shuffles(_)
Shuffles(s) ==
    IF s = <<>> THEN {<<>>}
    ELSE UNION {{<<s[k]>> \o t : t \in Shuffles(Without(s, k))} :
                k \in {j \in 1..Len(s) : \A h \in 1..(j - 1) : s[h] # s[j]}}

\* variant: a random source that can return 1.0
RandomIndexInclusive(r, n) == ((r + 1) * n) \div RandGrid

\* int(random.random() * n) for random.random() = r / RandGrid
RandomIndex(r, n) == (r * n) \div RandGrid

\* a table after its shuffle and the creation of its index
ShuffledTables(t) ==
    {[rotation |-> rot, num_unique_addrs |-> t.num_unique_addrs,
      index |-> RandomIndex(r, Len(rot))] :
        rot \in Shuffles(t.rotation), r \in 0..(RandGrid - 1)}

\* `for name in dist_tables` over the tables `names` still to visit
RECURSIVE FinishTables(_, _)
FinishTables(dt, names) ==
    IF names = {} THEN {dt}
    ELSE LET name == CHOOSE x \in names : TRUE
         IN  UNION {{[d EXCEPT ![name] = t] : t \in ShuffledTables(dt[name])} :
                    d \in FinishTables(dt, names \ {name})}

\* the dict to_dist_dict returns
Snapshot(lbm, mar, dt) ==
    [lb_method |-> lbm, max_addrs_returned |-> mar, dist_tables |-> dt]

\* every value one uninterrupted to_dist_dict call can return
ToDistDictResults(ms, lbm, fb, mar) ==
    LET built == BuildTables(InitTables, 1, ms, fb, lbm)
    IN  {Snapshot(EffectiveLbMethod(Status(ms), fb, lbm), mar, dt) :
            dt \in FinishTables(built, DOMAIN built)}

\* ------------------------------------------------------------ state machine
IdleFrame == [lb_method |-> "None", dist_tables |-> InitTables, k |-> 0, i |-> 0]

\* Pool.from_config_dict / Pool.__init__ / PoolMember.__init__
Init ==
    /\ lb_method \in available_lb_methods
    /\ fallback \in Fallbacks
    /\ max_addrs_returned \in
          {n \in {1, MAX_MAX_ADDRS_RETURNED} : n >= 1 /\ n <= MAX_MAX_ADDRS_RETURNED}
    /\ \E w \in [Ips -> Weights],
          r \in [Ips -> IF lb_method = "twrr" THEN Regions ELSE {NoRegion}] :
            members = [ip \in Ips |-> PoolMember(ip, w[ip], r[ip])]
    /\ last_status = "None"
    /\ obj = <<>>
    /\ statusRead = <<>>
    /\ kept = <<>>
    /\ pc = "idle"
    /\ frame = IdleFrame

\* the external monitor assigns a member's status
SetStatus(ip, s) ==
    /\ members[ip].status # s
    /\ members' = [members EXCEPT ![ip].status = s]
    /\ obj' = <<>>
    /\ statusRead' = <<>>
    /\ kept' = <<>>
    /\ UNCHANGED <<lb_method, fallback, max_addrs_returned, last_status, pc, frame>>

\* a read of the Pool.status property
ReadStatus ==
    /\ pc = "idle"
    /\ obj = <<>>
    /\ statusRead' = <<Status(members)>>
    /\ UNCHANGED <<pool, obj, kept, pc, frame>>

\* variant: the call stores the status it computed in last_status
ToDistDictStoringStatus ==
    /\ pc = "idle"
    /\ obj = <<>>
    /\ \E o \in ToDistDictResults(members, lb_method, fallback, max_addrs_returned) :
          obj' = <<o>>
    /\ statusRead' = <<>>
    /\ last_status' = IF Status(members) THEN "True" ELSE "False"
    /\ UNCHANGED <<members, lb_method, fallback, max_addrs_returned, kept, pc, frame>>

\* one uninterrupted call of Pool.to_dist_dict; the caller has taken the
\* value of the previous call
ToDistDict ==
    /\ pc = "idle"
    /\ obj = <<>>
    /\ \E o \in ToDistDictResults(members, lb_method, fallback, max_addrs_returned) :
          obj' = <<o>>
    /\ statusRead' = <<>>
    /\ UNCHANGED <<pool, kept, pc, frame>>

\* what two snapshots are compared on: everything but the order of the
\* rotations and the indexes
Summary(o) ==
    [lb_method |-> o.lb_method,
     max_addrs_returned |-> o.max_addrs_returned,
     dist_tables |->
        [name \in DOMAIN o.dist_tables |->
            [num_unique_addrs |-> o.dist_tables[name].num_unique_addrs,
             rotation |->
                [ip \in Ips |->
                    Cardinality({k \in 1..Len(o.dist_tables[name].rotation) :
                                    o.dist_tables[name].rotation[k] = ip})]]]]

\* the caller takes the returned snapshot
Take ==
    /\ pc = "idle"
    /\ obj # <<>>
    /\ kept' = <<Summary(obj[1])>>
    /\ obj' = <<>>
    /\ UNCHANGED <<pool, statusRead, pc, frame>>

Monitor == \E ip \in Ips, s \in {"up", "down"} : SetStatus(ip, s)

Next == Monitor \/ ReadStatus \/ ToDistDict \/ Take

Spec == Init /\ [][Next]_vars

\* ------------------------------------- to_dist_dict, one step at a time
\* Each step below performs at most one read of self.status (an atomic load
\* of every member's status); the monitor may write between any two steps.

\* obj = {} up to the creation of the "_default" table
Begin ==
    /\ pc = "idle"
    /\ obj = <<>>
    /\ frame' = [lb_method |-> EffectiveLbMethod(Status(members), fallback, lb_method),
                 dist_tables |-> InitTables, k |-> 1, i |-> 0]
    /\ pc' = "member"
    /\ UNCHANGED <<pool, obj, statusRead, kept>>

\* the head of the member loop: eligibility, weight 0, the count of the member
NextMember ==
    /\ pc = "member"
    /\ frame.k <= Len(MemberIps)
    /\ LET member == members[MemberIps[frame.k]]
       IN  IF Eligible(member, Status(members), fallback) /\ member.weight # 0
           THEN /\ frame' = [frame EXCEPT !.dist_tables = CountMember(@), !.i = 0]
                /\ pc' = "weight"
           ELSE /\ frame' = [frame EXCEPT !.k = @ + 1]
                /\ pc' = "member"
    /\ UNCHANGED <<pool, obj, statusRead, kept>>

\* one pass of the weight loop
AppendPass ==
    /\ pc = "weight"
    /\ LET member == members[MemberIps[frame.k]]
           dt == AppendIp(frame.dist_tables, member, Status(members), lb_method)
       IN  IF frame.i + 1 < member.weight
           THEN /\ frame' = [frame EXCEPT !.dist_tables = dt, !.i = @ + 1]
                /\ pc' = "weight"
           ELSE /\ frame' = [frame EXCEPT !.dist_tables = dt, !.i = 0, !.k = @ + 1]
                /\ pc' = "member"
    /\ UNCHANGED <<pool, obj, statusRead, kept>>

\* the shuffle, the indexes and the return
Finish ==
    /\ pc = "member"
    /\ frame.k > Len(MemberIps)
    /\ \E dt \in FinishTables(frame.dist_tables, DOMAIN frame.dist_tables) :
          obj' = <<Snapshot(frame.lb_method, max_addrs_returned, dt)>>
    /\ pc' = "idle"
    /\ frame' = IdleFrame
    /\ UNCHANGED <<pool, statusRead, kept>>

NextInterleaved == Monitor \/ Begin \/ NextMember \/ AppendPass \/ Finish

SpecInterleaved == Init /\ [][NextInterleaved]_vars

\* ------------------------------------------------------------ properties
\* number of occurrences of x in the sequence s
Occurrences(s, x) == Cardinality({k \in 1..Len(s) : s[k] = x})

\* the set of entries of the sequence s
Entries(s) == {s[k] : k \in 1..Len(s)}

IsUp(ip) == members[ip].status = "up"
AnyUp == \E ip \in Ips : IsUp(ip)
\* eligibility as the specification words it
IsEligible(ip) == IsUp(ip) \/ (~AnyUp /\ fallback = "any")

\* a to_dist_dict call has just returned; Tables are its dist_tables
Returned == obj # <<>>
Tables == obj[1].dist_tables
Default == Tables["_default"]

\* C1: in every returned snapshot the number of occurrences of each member's
\* ip in the "_default" rotation is its weight if the member is eligible (up,
\* or pool down with fallback "any") and 0 otherwise.
C1_DefaultRotationCounts ==
    Returned =>
        \A ip \in Ips :
            Occurrences(Default.rotation, ip) =
                IF IsEligible(ip) THEN members[ip].weight ELSE 0

\* C2: the snapshot's lb_method is "wrr" whenever no member is up and
\* fallback is "any", and the configured lb_method in every other case.
C2_EffectiveLbMethod ==
    Returned =>
        obj[1].lb_method =
            IF ~AnyUp /\ fallback = "any" THEN "wrr" ELSE lb_method

C2_Witness ==
    /\ Returned
    /\ lb_method = "twrr"
    /\ fallback = "any"
    /\ \A ip \in Ips : members[ip].status = "down"
    /\ obj[1].lb_method = "wrr"

\* C3 as stated: dist_tables has a key other than "_default" if and only if
\* the configured lb_method is "twrr" and some member is up.
C3_RegionalIffTwrrAndUp ==
    Returned =>
        /\ "_default" \in DOMAIN Tables
        /\ (DOMAIN Tables # {"_default"}) <=> (lb_method = "twrr" /\ AnyUp)

\* C3 amended: the keys of dist_tables are "_default" and, under "twrr", the
\* regions of the members that are up with a weight above 0; so a regional
\* table exists only if lb_method is "twrr" and the pool is up, and one is
\* missing when every up member has weight 0.
C3_TableKeys ==
    Returned =>
        DOMAIN Tables =
            {"_default"} \cup
            (IF lb_method = "twrr"
             THEN {members[ip].region :
                     ip \in {m \in Ips : IsUp(m) /\ members[m].weight > 0}}
             ELSE {})

C3_Witness ==
    /\ Returned
    /\ lb_method = "twrr"
    /\ AnyUp
    /\ \A ip \in Ips : members[ip].region # "_default"
    /\ \A ip \in Ips : IsUp(ip) => members[ip].weight = 0
    /\ \E ip \in Ips : ~IsUp(ip) /\ members[ip].weight > 0
    /\ DOMAIN Tables = {"_default"}

\* C4: in every regional table num_unique_addrs is the number of distinct
\* member ips of its rotation.
C4_RegionalUniqueAddrs ==
    Returned =>
        \A name \in DOMAIN Tables \ {"_default"} :
            Tables[name].num_unique_addrs =
                Cardinality(Entries(Tables[name].rotation))

\* C5: "_default".num_unique_addrs is the number of eligible members of
\* weight above 0, and is 0 exactly when the "_default" rotation is empty.
C5_DefaultUniqueAddrs ==
    Returned =>
        /\ Default.num_unique_addrs =
              Cardinality({ip \in Ips : IsEligible(ip) /\ members[ip].weight > 0})
        /\ (Default.num_unique_addrs = 0) <=> (Default.rotation = <<>>)

\* C6: when regional tables are built ("twrr", pool up) the table keyed by a
\* member's region r holds each up member of region r weight times and no
\* ip of another region, of a member not up or of a weight-0 member.
C6_RegionalRotations ==
    (Returned /\ lb_method = "twrr" /\ AnyUp) =>
        \A r \in {members[ip].region : ip \in Ips} \cap DOMAIN Tables :
            \A ip \in Ips :
                Occurrences(Tables[r].rotation, ip) =
                    IF members[ip].region = r /\ IsUp(ip)
                    THEN members[ip].weight ELSE 0

\* C7: a read of Pool.status yields true if and only if at least one member
\* is up at that moment (unknown and down do not count).
C7_StatusIffSomeMemberUp ==
    statusRead # <<>> => (statusRead[1] <=> AnyUp)

C7_Witness ==
    /\ statusRead = <<TRUE>>
    /\ \E ip \in Ips : members[ip].status = "down"
    /\ \E ip \in Ips : members[ip].status = "up"

\* C8: every table of every snapshot has an index with
\* 0 <= index < max(1, len(rotation)), which is 0 for an empty rotation.
C8_IndexInRange ==
    Returned =>
        \A name \in DOMAIN Tables :
            /\ "index" \in DOMAIN Tables[name]
            /\ Tables[name].index >= 0
            /\ Tables[name].index <
                  (IF Len(Tables[name].rotation) > 1
                   THEN Len(Tables[name].rotation) ELSE 1)
            /\ Len(Tables[name].rotation) = 0 => Tables[name].index = 0

C8_Witness ==
    /\ Returned
    /\ \A ip \in Ips : members[ip].status = "down"
    /\ fallback = "refuse"
    /\ Default.rotation = <<>>
    /\ Default.index = 0

\* C9: a to_dist_dict call changes no field of the pool or of its members,
\* and a call that follows another with no monitor write in between returns
\* the same lb_method, max_addrs_returned, table keys, num_unique_addrs and
\* rotation multisets as the snapshot taken before.
C9_CallLeavesPoolUnchanged ==
    [][/\ obj' # <<>> => pool' = pool
       /\ (obj' # <<>> /\ kept' # <<>>) => Summary(obj'[1]) = kept'[1]]_vars

C9_Witness ==
    /\ Returned
    /\ kept # <<>>
    /\ Summary(obj[1]) = kept[1]
    /\ \E ip \in Ips : members[ip].status = "down"
    /\ Cardinality(Entries(Default.rotation)) = 2
    /\ Default.rotation[1] # MemberIps[1]
    /\ Default.index > 0

\* C10: when monitor writes interleave with a to_dist_dict call, the
\* returned snapshot has regional tables only if its lb_method is "twrr".
C10_RegionalOnlyUnderTwrr ==
    Returned =>
        (DOMAIN Tables # {"_default"} => obj[1].lb_method = "twrr")

====
